---- MODULE Spec2Model ----
(***************************************************************************)
(* Model of src/index.js: an Express service over three Sequelize models   *)
(* (Autor, Antologia, Like) stored in one SQLite file, with the bulk       *)
(* export / import / reset routes.                                         *)
(*                                                                         *)
(* src/index.js holds two revisions of the program one after the other:    *)
(* lines 1-381 (bulk routes, initializeDatabase with sync({force: true}))  *)
(* and lines 382-672 (no bulk routes, sync({alter: true})).  The request   *)
(* handlers they share are textually identical.  The model follows the     *)
(* first revision, the one that has every route.                           *)
(*                                                                         *)
(* Columns that no handler reads (biografia, urlfoto, contenido,           *)
(* referencia, tituloObra, autorObra, userId, userEmail, the timestamps)   *)
(* are plain payload carried exactly like nombre / titulo and are left out *)
(* of the rows.                                                            *)
(***************************************************************************)
EXTENDS Integers, Sequences, FiniteSets, TLC

\* Largest id the model lets a table's id sequence reach.
MaxId == 2

\* SQL NULL / JSON null / a field missing from a request body, in an integer
\* column (ids start at 1) and in a text column.
NULL == 0
Undefined == "undefined"

SeedNombre == "Ada Aurora"
SeedTitulo == "Primera Antologia"
\* The names and titles requests send.
Nombres == {"n"}
Titulos == {"t"}

Ids == 1..MaxId

\* How the store treats the declared foreign keys.  The handlers do not
\* choose it; it is fixed by the Sequelize / SQLite build the service runs on:
\*   off       - references declared but not enforced
\*   no_action - enforced, deleting a referenced parent fails
\*   set_null  - enforced, deleting a parent nulls the children's key
\*   cascade   - enforced, deleting a parent deletes the children
FkPolicies == {"off", "no_action", "set_null", "cascade"}

VARIABLES
  pc,          \* "boot" before initializeDatabase() resolved, then "serving"
  fkPolicy,    \* the store's foreign-key behaviour, fixed for a behaviour
  autores,     \* table Autors:     set of [idautor, nombre]
  antologias,  \* table Antologias: set of [id, titulo, idautor]
  likes,       \* table Likes:      set of [id, idantologia]
  seq,         \* sqlite_sequence: table name -> last id handed out
  held,        \* history: table name -> ids a row has held since the table was created
  inflight,    \* PUT requests awaiting their refetch (concurrent specification)
  res          \* the last response sent

vars == <<pc, fkPolicy, autores, antologias, likes, seq, held, inflight, res>>

Tables == {"Autors", "Antologias", "Likes"}

----------------------------------------------------------------------------
(* The store *)

Max(a, b) == IF a >= b THEN a ELSE b

MaxOf(S) == IF S = {} THEN 0 ELSE CHOOSE m \in S : \A x \in S : x <= m

AutorIds(st) == {a.idautor : a \in st.autores}
AntologiaIds(st) == {e.id : e \in st.antologias}
LikeIds(st) == {l.id : l \in st.likes}

TableIds(st, t) ==
  CASE t = "Autors" -> AutorIds(st)
    [] t = "Antologias" -> AntologiaIds(st)
    [] t = "Likes" -> LikeIds(st)

EmptyStore(policy) ==
  [policy |-> policy,
   autores |-> {}, antologias |-> {}, likes |-> {},
   seq |-> [t \in Tables |-> 0],
   held |-> [t \in Tables |-> {}]]

Store ==
  [policy |-> fkPolicy,
   autores |-> autores, antologias |-> antologias, likes |-> likes,
   seq |-> seq, held |-> held]

\* INTEGER PRIMARY KEY AUTOINCREMENT: one more than the largest id the table
\* has ever held (sqlite_sequence), never the largest id it holds now.
\* (NextIdRowid is the plain rowid rule, kept to show what C9 rests on.)
NextIdRowid(st, t) == MaxOf(TableIds(st, t)) + 1

NextId(st, t) == Max(st.seq[t], MaxOf(TableIds(st, t))) + 1

\* A row with primary key id enters table t.
Took(st, t, id) ==
  [st EXCEPT !.seq[t] = Max(@, id), !.held[t] = @ \cup {id}]

FkEnforced(st) == st.policy # "off"

\* May a child row carry foreign key k, given the parent ids present?
FkOk(st, k, parentIds) == ~FkEnforced(st) \/ k = NULL \/ k \in parentIds

\* Route parameters arrive as strings; SQLite converts a numeric string to
\* the column's INTEGER affinity and a non-numeric one matches no row.
Params == {ToString(i) : i \in Ids} \cup {"x"}

ParamToId(p) ==
  IF \E i \in Ids : ToString(i) = p
  THEN CHOOSE i \in Ids : ToString(i) = p
  ELSE NULL

----------------------------------------------------------------------------
(* Responses *)

NoSnapshot == [autores |-> <<>>, antologias |-> <<>>, likes |-> <<>>]

Response(op, status) ==
  [op |-> op, status |-> status, id |-> NULL, rows |-> {},
   snap |-> NoSnapshot, n |-> 0, prev |-> -1, sent |-> <<>>, crossed |-> FALSE]

NoResponse == Response("none", 0)

----------------------------------------------------------------------------
(* Model.create: validation of allowNull: false, then one INSERT *)

Result(st, r) == [st |-> st, res |-> r]

insertAutor(st, nombre) ==
  LET id == NextId(st, "Autors")
  IN [Took(st, "Autors", id) EXCEPT
        !.autores = @ \cup {[idautor |-> id, nombre |-> nombre]}]

insertAntologia(st, titulo, idautor) ==
  LET id == NextId(st, "Antologias")
  IN [Took(st, "Antologias", id) EXCEPT
        !.antologias = @ \cup {[id |-> id, titulo |-> titulo, idautor |-> idautor]}]

insertLike(st, idantologia) ==
  LET id == NextId(st, "Likes")
  IN [Took(st, "Likes", id) EXCEPT
        !.likes = @ \cup {[id |-> id, idantologia |-> idantologia]}]

\* POST /autores
createAutor(st, body) ==
  IF body.nombre = Undefined
  THEN Result(st, Response("createAutor", 500))
  ELSE LET id == NextId(st, "Autors")
       IN Result(insertAutor(st, body.nombre),
                 [Response("createAutor", 201) EXCEPT
                    !.id = id,
                    !.rows = {[idautor |-> id, nombre |-> body.nombre]}])

\* POST /antologia
createAntologia(st, body) ==
  IF body.titulo = Undefined \/ ~FkOk(st, body.idautor, AutorIds(st))
  THEN Result(st, Response("createAntologia", 500))
  ELSE LET id == NextId(st, "Antologias")
       IN Result(insertAntologia(st, body.titulo, body.idautor),
                 [Response("createAntologia", 201) EXCEPT
                    !.id = id,
                    !.rows = {[id |-> id, titulo |-> body.titulo,
                               idautor |-> body.idautor]}])

\* POST /like
createLike(st, body) ==
  IF ~FkOk(st, body.idantologia, AntologiaIds(st))
  THEN Result(st, Response("createLike", 500))
  ELSE LET id == NextId(st, "Likes")
       IN Result(insertLike(st, body.idantologia),
                 [Response("createLike", 201) EXCEPT
                    !.id = id,
                    !.rows = {[id |-> id, idantologia |-> body.idantologia]}])

----------------------------------------------------------------------------
(* Lifecycle *)

\* sequelize.sync({force: true}): every table is dropped and created again,
\* which also discards its sqlite_sequence row.
syncForce(st) == EmptyStore(st.policy)

\* Autor.findOne(): the first row in rowid order, or none.
findOneAutor(st) ==
  IF st.autores = {} THEN {}
  ELSE {CHOOSE a \in st.autores : \A b \in st.autores : a.idautor <= b.idautor}

seedAutor(st) ==
  IF Cardinality(st.autores) = 0 THEN insertAutor(st, SeedNombre) ELSE st

\* (seedAntologiaWhenSome has the count test inverted; C1 tells the two apart.)
seedAntologiaWhenSome(st) ==
  IF Cardinality(st.antologias) # 0
  THEN LET defaultAuthor == findOneAutor(st)
       IN IF defaultAuthor # {}
          THEN insertAntologia(st, SeedTitulo,
                               (CHOOSE a \in defaultAuthor : TRUE).idautor)
          ELSE st
  ELSE st

seedAntologia(st) ==
  IF Cardinality(st.antologias) = 0
  THEN LET defaultAuthor == findOneAutor(st)
       IN IF defaultAuthor # {}
          THEN insertAntologia(st, SeedTitulo,
                               (CHOOSE a \in defaultAuthor : TRUE).idautor)
          ELSE st
  ELSE st

initializeDatabase(st) == seedAntologia(seedAutor(syncForce(st)))

\* Model.destroy({where: {}, force: true}) on the three tables, children first.
destroyAll(st) ==
  LET s1 == [st EXCEPT !.likes = {}]
      s2 == [s1 EXCEPT !.antologias = {}]
  IN [s2 EXCEPT !.autores = {}]

\* POST /database/reset; n is the number of rows the store held before.
resetHandler(st) ==
  Result(initializeDatabase(destroyAll(st)),
         [Response("reset", 200) EXCEPT !.n = Cardinality(st.autores)
            + Cardinality(st.antologias) + Cardinality(st.likes)])

----------------------------------------------------------------------------
(* Anthology update and delete *)

\* Antologia.update(body, {where: {id}}): the number of rows matched.
\* (updateAntologiaNoWrite matches the row and writes nothing; C10 tells the
\* two apart.)
updateAntologiaNoWrite(st, p, body) ==
  [st |-> st, updated |-> Cardinality({e \in st.antologias : e.id = ParamToId(p)})]

\* updated = -1 stands for the rejected promise of a foreign-key error.
updateAntologia(st, p, body) ==
  LET id == ParamToId(p)
      hit == {e \in st.antologias : e.id = id}
  IN IF hit # {} /\ ~FkOk(st, body.idautor, AutorIds(st))
     THEN [st |-> st, updated |-> -1]
     ELSE [st |-> [st EXCEPT !.antologias =
                     (@ \ hit) \cup {[e EXCEPT !.idautor = body.idautor] : e \in hit}],
           updated |-> Cardinality(hit)]

\* Autor.update(body, {where: {idautor}})
updateAutor(st, p, body) ==
  LET id == ParamToId(p)
      hit == {a \in st.autores : a.idautor = id}
  IN [st |-> [st EXCEPT !.autores =
                 (@ \ hit) \cup {[a EXCEPT !.nombre = body.nombre] : a \in hit}],
      updated |-> Cardinality(hit)]

\* Antologia.findByPk(id) / Autor.findByPk(id): the row, or null (no row).
findAntologiaByPk(st, p) == {e \in st.antologias : e.id = ParamToId(p)}

findAutorByPk(st, p) == {a \in st.autores : a.idautor = ParamToId(p)}

\* The tail of PUT /antologia/:id after `if (updated)`.
refetchAntologia(st, p) ==
  [Response("putAntologia", 200) EXCEPT
     !.id = ParamToId(p), !.rows = findAntologiaByPk(st, p)]

refetchAutor(st, p) ==
  [Response("putAutor", 200) EXCEPT
     !.id = ParamToId(p), !.rows = findAutorByPk(st, p)]

\* PUT /antologia/:id with nothing running between its two awaits.
putAntologia(st, p, body) ==
  LET u == updateAntologia(st, p, body)
  IN IF u.updated > 0
     THEN Result(u.st, refetchAntologia(u.st, p))
     ELSE Result(u.st, Response("putAntologia", 500))

\* PUT /autores/:id with nothing running between its two awaits.
putAutor(st, p, body) ==
  LET u == updateAutor(st, p, body)
  IN IF u.updated # 0
     THEN Result(u.st, refetchAutor(u.st, p))
     ELSE Result(u.st, Response("putAutor", 500))

\* Antologia.destroy({where: {id}}): the number of rows deleted, or a
\* foreign-key error (deleted = -1 stands for the rejected promise).
destroyAntologia(st, p) ==
  LET id == ParamToId(p)
      hit == {e \in st.antologias : e.id = id}
      kids == {l \in st.likes : l.idantologia = id}
      gone == [st EXCEPT !.antologias = @ \ hit]
  IN IF hit = {} THEN [st |-> st, deleted |-> 0]
     ELSE CASE st.policy = "no_action" /\ kids # {} ->
                 [st |-> st, deleted |-> -1]
            [] st.policy = "set_null" ->
                 [st |-> [gone EXCEPT !.likes =
                            (@ \ kids) \cup {[l EXCEPT !.idantologia = NULL] : l \in kids}],
                  deleted |-> Cardinality(hit)]
            [] st.policy = "cascade" ->
                 [st |-> [gone EXCEPT !.likes = @ \ kids],
                  deleted |-> Cardinality(hit)]
            [] OTHER ->
                 [st |-> gone, deleted |-> Cardinality(hit)]

\* (deletedTruthyAlways takes a count of 0 for success; C7 tells the two apart.)
deletedTruthyAlways(d) == d >= 0

\* `if (deleted)` on a resolved destroy.
deletedTruthy(d) == d > 0

\* DELETE /antologia/:id
deleteAntologia(st, p) ==
  LET d == destroyAntologia(st, p)
  IN IF deletedTruthy(d.deleted)
     THEN Result(d.st, [Response("deleteAntologia", 200) EXCEPT !.id = ParamToId(p)])
     ELSE Result(d.st, [Response("deleteAntologia", 500) EXCEPT !.id = ParamToId(p)])

----------------------------------------------------------------------------
(* Listings *)

\* The correlated subquery
\*   (SELECT COUNT(*) FROM Likes WHERE Likes.idantologia = Antologia.id)
\* (likesCountByLikeId correlates on Likes.id; C3 tells the two apart.)
likesCountByLikeId(st, e) == Cardinality({l \in st.likes : l.id = e.id})

likesCount(st, e) == Cardinality({l \in st.likes : l.idantologia = e.id})

\* include: {model: Autor}: a LEFT OUTER JOIN, the entry is kept when no
\* author row matches and its Autor is then null (the empty set here).
joinAutor(st, e) == {[nombre |-> a.nombre] : a \in {b \in st.autores : b.idautor = e.idautor}}

\* (listedInnerJoin is the join with required: true; C8 tells the two apart.)
listedInnerJoin(st) == {e \in st.antologias : joinAutor(st, e) # {}}

\* The entries the join keeps.
listed(st) == st.antologias

findAllAntologias(st) ==
  {[id |-> e.id, titulo |-> e.titulo, idautor |-> e.idautor,
    Autor |-> joinAutor(st, e), likesCount |-> likesCount(st, e)] : e \in listed(st)}

\* GET /antologia
getAntologias(st) ==
  LET found == findAllAntologias(st)
  IN IF Cardinality(found) = 0
     THEN Response("getAntologias", 404)
     ELSE [Response("getAntologias", 200) EXCEPT !.rows = found, !.n = Cardinality(found)]

\* GET /autores
getAutores(st) ==
  [Response("getAutores", 200) EXCEPT !.rows = st.autores, !.n = Cardinality(st.autores)]

\* GET /like/:idantologia
getLikes(st, p) ==
  LET found == {l \in st.likes : l.idantologia = ParamToId(p) /\ ParamToId(p) # NULL}
  IN [Response("getLikes", 200) EXCEPT
        !.id = ParamToId(p), !.rows = found, !.n = Cardinality(found)]

----------------------------------------------------------------------------
(* Export *)

RECURSIVE SortedIds(_)
SortedIds(S) ==
  IF S = {} THEN <<>>
  ELSE LET m == CHOOSE x \in S : \A y \in S : x <= y
       IN <<m>> \o SortedIds(S \ {m})

\* findAll() and JSON.stringify: each table as an array of its rows in
\* rowid order; null columns stay null.
dumpAutores(st) ==
  LET ids == SortedIds(AutorIds(st))
  IN [i \in 1..Len(ids) |-> CHOOSE a \in st.autores : a.idautor = ids[i]]

dumpAntologias(st) ==
  LET ids == SortedIds(AntologiaIds(st))
  IN [i \in 1..Len(ids) |-> CHOOSE e \in st.antologias : e.id = ids[i]]

dumpLikes(st) ==
  LET ids == SortedIds(LikeIds(st))
  IN [i \in 1..Len(ids) |-> CHOOSE l \in st.likes : l.id = ids[i]]

databaseDump(st) ==
  [autores |-> dumpAutores(st), antologias |-> dumpAntologias(st), likes |-> dumpLikes(st)]

\* GET /database/export
exportHandler(st) ==
  [Response("export", 200) EXCEPT
     !.snap = databaseDump(st),
     !.n = Cardinality(st.autores) + Cardinality(st.antologias) + Cardinality(st.likes)]

----------------------------------------------------------------------------
(* Import *)

\* One top-level key of the request body: missing ("absent", falsy), an
\* array of rows ("rows"), or a truthy value that is no array, such as a
\* string ("malformed": bulkCreate calls records.map and throws).
Absent == [kind |-> "absent", rows |-> <<>>]
Malformed == [kind |-> "malformed", rows |-> <<>>]
Rows(rs) == [kind |-> "rows", rows |-> rs]

\* The body a client posts when it sends an exported file back.
asBody(snap) ==
  [autores |-> Rows(snap.autores), antologias |-> Rows(snap.antologias),
   likes |-> Rows(snap.likes)]

PrimaryKey(t, r) == IF t = "Autors" THEN r.idautor ELSE r.id

\* The allowNull: false column of each table (Likes has none).
NotNullOk(t, r) ==
  CASE t = "Autors" -> r.nombre # Undefined
    [] t = "Antologias" -> r.titulo # Undefined
    [] OTHER -> TRUE

ParentIds(st, t) ==
  CASE t = "Antologias" -> AutorIds(st)
    [] t = "Likes" -> AntologiaIds(st)
    [] OTHER -> {}

ForeignKey(t, r) ==
  CASE t = "Antologias" -> r.idautor
    [] t = "Likes" -> r.idantologia
    [] OTHER -> NULL

WithRow(st, t, r, id) ==
  CASE t = "Autors" ->
         [st EXCEPT !.autores = @ \cup {[idautor |-> id, nombre |-> r.nombre]}]
    [] t = "Antologias" ->
         [st EXCEPT !.antologias =
            @ \cup {[id |-> id, titulo |-> r.titulo, idautor |-> r.idautor]}]
    [] t = "Likes" ->
         [st EXCEPT !.likes = @ \cup {[id |-> id, idantologia |-> r.idantologia]}]

\* Does the table already hold this primary key?
isDuplicate(st, t, id) == id \in TableIds(st, t)

\* One row of INSERT OR IGNORE: a row without a key takes the next id of the
\* sequence; a row that breaks NOT NULL or repeats a primary key is skipped;
\* the sequence moves past every key the statement has seen.
\* (rowIdIgnoringKey drops the key a row brings; C2 tells the two apart.)
rowIdIgnoringKey(st, t, r) == NextId(st, t)

\* The primary key a row of the batch is inserted under.
rowId(st, t, r) == IF PrimaryKey(t, r) = NULL THEN NextId(st, t) ELSE PrimaryKey(t, r)

insertOrIgnore(st, t, r) ==
  LET id == rowId(st, t, r)
      seen == [st EXCEPT !.seq[t] = Max(@, id)]
  IN IF ~NotNullOk(t, r) \/ isDuplicate(st, t, id)
     THEN [st |-> seen, fkBad |-> FALSE]
     ELSE [st |-> WithRow(Took(st, t, id), t, r, id),
           fkBad |-> ~FkOk(st, ForeignKey(t, r), ParentIds(st, t))]

RECURSIVE insertRows(_, _, _, _)
insertRows(st, t, rows, i) ==
  IF i > Len(rows) THEN [st |-> st, fkBad |-> FALSE]
  ELSE LET one == insertOrIgnore(st, t, rows[i])
           rest == insertRows(one.st, t, rows, i + 1)
       IN [st |-> rest.st, fkBad |-> one.fkBad \/ rest.fkBad]

\* Model.bulkCreate(records, {ignoreDuplicates: true}): one statement, so a
\* foreign-key failure leaves the table as it was; ok = FALSE is the
\* rejected promise.
bulkCreate(st, t, payload) ==
  IF payload.kind = "malformed" THEN [st |-> st, ok |-> FALSE]
  ELSE LET done == insertRows(st, t, payload.rows, 1)
       IN IF done.fkBad THEN [st |-> st, ok |-> FALSE]
          ELSE [st |-> done.st, ok |-> TRUE]

RowCount(st) ==
  Cardinality(st.autores) + Cardinality(st.antologias) + Cardinality(st.likes)

importResponse(st0, st1, status) ==
  [Response("import", status) EXCEPT !.n = RowCount(st1) - RowCount(st0)]

\* `if (autores) { await Autor.bulkCreate(...) }`, and likewise the others.
importStep(st, t, payload) ==
  IF payload.kind = "absent" THEN [st |-> st, ok |-> TRUE]
  ELSE bulkCreate(st, t, payload)

\* (importHandlerLikesFirst runs the batches children first; C6 tells the two
\* apart.)
importHandlerLikesFirst(st, body) ==
  LET l == importStep(st, "Likes", body.likes)
      e == importStep(l.st, "Antologias", body.antologias)
      a == importStep(e.st, "Autors", body.autores)
  IN IF ~l.ok THEN Result(l.st, importResponse(st, l.st, 500))
     ELSE IF ~e.ok THEN Result(e.st, importResponse(st, e.st, 500))
     ELSE IF ~a.ok THEN Result(a.st, importResponse(st, a.st, 500))
     ELSE Result(a.st, importResponse(st, a.st, 200))

\* POST /database/import: the three batches inside one try block; n is the
\* number of rows the request added.
importHandler(st, body) ==
  LET a == importStep(st, "Autors", body.autores)
      e == importStep(a.st, "Antologias", body.antologias)
      l == importStep(e.st, "Likes", body.likes)
  IN IF ~a.ok THEN Result(a.st, importResponse(st, a.st, 500))
     ELSE IF ~e.ok THEN Result(e.st, importResponse(st, e.st, 500))
     ELSE IF ~l.ok THEN Result(l.st, importResponse(st, l.st, 500))
     ELSE Result(l.st, importResponse(st, l.st, 200))

----------------------------------------------------------------------------
(* The state machine *)

\* PUT requests that may be between their update and their refetch at once.
MaxInflight == 2

\* What database.sqlite may hold when the process starts: no tables yet, or
\* the tables an earlier run left behind.
LeftBehind(policy) ==
  [EmptyStore(policy) EXCEPT
     !.autores = {[idautor |-> 1, nombre |-> "n"]},
     !.antologias = {[id |-> 1, titulo |-> SeedTitulo, idautor |-> 1]},
     !.likes = {[id |-> 1, idantologia |-> 1]},
     !.seq = [t \in Tables |-> 1],
     !.held = [t \in Tables |-> {1}]]

Init ==
  /\ pc = "boot"
  /\ fkPolicy \in FkPolicies
  /\ \E st \in {EmptyStore(fkPolicy), LeftBehind(fkPolicy)} :
       /\ autores = st.autores
       /\ antologias = st.antologias
       /\ likes = st.likes
       /\ seq = st.seq
       /\ held = st.held
  /\ inflight = {}
  /\ res = NoResponse

Within(st) == \A t \in Tables : st.seq[t] <= MaxId

SetStore(st) ==
  /\ autores' = st.autores
  /\ antologias' = st.antologias
  /\ likes' = st.likes
  /\ seq' = st.seq
  /\ held' = st.held

\* A whole handler ran: its writes and its response.
Do(r) ==
  /\ pc = "serving"
  /\ Within(r.st)
  /\ SetStore(r.st)
  /\ res' = r.res
  /\ UNCHANGED <<pc, fkPolicy>>

\* In-flight PUTs that a statement of another request got in front of.
Cross(hit(_)) == {IF hit(q) THEN [q EXCEPT !.crossed = TRUE] ELSE q : q \in inflight}

NoCross == UNCHANGED inflight

\* initializeDatabase().then(() => app.listen(...))
Startup ==
  /\ pc = "boot"
  /\ SetStore(initializeDatabase(Store))
  /\ pc' = "serving"
  /\ res' = Response("listen", 0)
  /\ UNCHANGED <<fkPolicy, inflight>>

CreateAutor ==
  \E nombre \in Nombres \cup {Undefined} :
    Do(createAutor(Store, [nombre |-> nombre])) /\ NoCross

CreateAntologia ==
  \E titulo \in Titulos \cup {Undefined}, idautor \in Ids \cup {NULL} :
    Do(createAntologia(Store, [titulo |-> titulo, idautor |-> idautor])) /\ NoCross

CreateLike ==
  \E idantologia \in Ids \cup {NULL} :
    Do(createLike(Store, [idantologia |-> idantologia])) /\ NoCross

PutAntologia ==
  \E p \in Params, idautor \in Ids \cup {NULL} :
    /\ Do(LET r == putAntologia(Store, p, [idautor |-> idautor])
          IN Result(r.st, IF r.res.status = 200
                          THEN [r.res EXCEPT !.sent = [idautor |-> idautor]]
                          ELSE r.res))
    /\ NoCross

PutAutor ==
  \E p \in Params, nombre \in Nombres :
    /\ Do(LET r == putAutor(Store, p, [nombre |-> nombre])
          IN Result(r.st, IF r.res.status = 200
                          THEN [r.res EXCEPT !.sent = [nombre |-> nombre]]
                          ELSE r.res))
    /\ NoCross

DeleteAntologia ==
  \E p \in Params :
    /\ Do(deleteAntologia(Store, p))
    /\ inflight' = Cross(LAMBDA q : q.route = "antologia" /\ ParamToId(q.p) = ParamToId(p))

GetAntologias == Do(Result(Store, getAntologias(Store))) /\ NoCross

GetAutores == Do(Result(Store, getAutores(Store))) /\ NoCross

GetLikes == \E p \in Params : Do(Result(Store, getLikes(Store, p))) /\ NoCross

Export == Do(Result(Store, exportHandler(Store))) /\ NoCross

Reset ==
  /\ Do(resetHandler(Store))
  /\ inflight' = Cross(LAMBDA q : TRUE)

\* Request bodies of POST /database/import: rows with and without primary
\* keys, duplicates, a null in a required column, references to parents that
\* may be missing, keys left out, a key that is no array.
KeyedAutor == Rows(<<[idautor |-> 2, nombre |-> "n"]>>)
KeyedAntologia == Rows(<<[id |-> 2, titulo |-> "t", idautor |-> 2]>>)
KeyedLike == Rows(<<[id |-> 1, idantologia |-> 2]>>)

ImportBodies ==
  {[autores |-> KeyedAutor, antologias |-> KeyedAntologia, likes |-> KeyedLike],
   [autores |-> Absent, antologias |-> KeyedAntologia, likes |-> KeyedLike],
   [autores |-> Absent, antologias |-> Absent,
    likes |-> Rows(<<[id |-> 1, idantologia |-> 1]>>)],
   [autores |-> Malformed,
    antologias |-> Rows(<<[id |-> 2, titulo |-> "t", idautor |-> NULL]>>),
    likes |-> Absent],
   [autores |-> Rows(<<[idautor |-> 1, nombre |-> "n"],
                       [idautor |-> 2, nombre |-> Undefined]>>),
    antologias |-> Rows(<<>>),
    likes |-> Rows(<<[id |-> 2, idantologia |-> NULL], [id |-> 2, idantologia |-> 1]>>)],
   [autores |-> Rows(<<[idautor |-> NULL, nombre |-> "n"]>>),
    antologias |-> Rows(<<[id |-> NULL, titulo |-> "t", idautor |-> NULL]>>),
    likes |-> Absent],
   [autores |-> Absent, antologias |-> Absent,
    likes |-> Rows(<<[id |-> NULL, idantologia |-> 1]>>)]}

Import ==
  \E body \in ImportBodies \cup (IF res.op = "export" THEN {asBody(res.snap)} ELSE {}) :
    /\ Do(LET r == importHandler(Store, body)
          IN Result(r.st, [r.res EXCEPT
               !.snap = body,
               !.prev = IF res.op = "import" /\ res.snap = body THEN res.n ELSE -1]))
    /\ NoCross

\* PUT /antologia/:id up to its first await: the UPDATE ran; a request that
\* matched no row answers 500 at once.
PutAntologiaUpdate ==
  \E p \in Params, idautor \in Ids \cup {NULL} :
    LET u == updateAntologia(Store, p, [idautor |-> idautor])
    IN /\ pc = "serving"
       /\ Cardinality(inflight) < MaxInflight
       /\ SetStore(u.st)
       /\ IF u.updated > 0
          THEN /\ inflight' =
                    Cross(LAMBDA q : q.route = "antologia" /\ ParamToId(q.p) = ParamToId(p))
                    \cup {[route |-> "antologia", p |-> p,
                            sent |-> [idautor |-> idautor], crossed |-> FALSE]}
               /\ res' = Response("putAntologiaPending", 0)
          ELSE /\ inflight' = inflight
               /\ res' = Response("putAntologia", 500)
       /\ UNCHANGED <<pc, fkPolicy>>

\* ... and from findByPk to res.json.
PutAntologiaRefetch ==
  \E q \in inflight :
    /\ q.route = "antologia"
    /\ pc = "serving"
    /\ res' = [refetchAntologia(Store, q.p) EXCEPT !.sent = q.sent, !.crossed = q.crossed]
    /\ inflight' = inflight \ {q}
    /\ UNCHANGED <<pc, fkPolicy, autores, antologias, likes, seq, held>>

PutAutorUpdate ==
  \E p \in Params, nombre \in Nombres :
    LET u == updateAutor(Store, p, [nombre |-> nombre])
    IN /\ pc = "serving"
       /\ Cardinality(inflight) < MaxInflight
       /\ SetStore(u.st)
       /\ IF u.updated # 0
          THEN /\ inflight' =
                    Cross(LAMBDA q : q.route = "autor" /\ ParamToId(q.p) = ParamToId(p))
                    \cup {[route |-> "autor", p |-> p,
                            sent |-> [nombre |-> nombre], crossed |-> FALSE]}
               /\ res' = Response("putAutorPending", 0)
          ELSE /\ inflight' = inflight
               /\ res' = Response("putAutor", 500)
       /\ UNCHANGED <<pc, fkPolicy>>

PutAutorRefetch ==
  \E q \in inflight :
    /\ q.route = "autor"
    /\ pc = "serving"
    /\ res' = [refetchAutor(Store, q.p) EXCEPT !.sent = q.sent, !.crossed = q.crossed]
    /\ inflight' = inflight \ {q}
    /\ UNCHANGED <<pc, fkPolicy, autores, antologias, likes, seq, held>>

\* Requests served one at a time, each handler running to completion.
Next ==
  \/ Startup
  \/ CreateAutor
  \/ CreateAntologia
  \/ CreateLike
  \/ PutAntologia
  \/ PutAutor
  \/ DeleteAntologia
  \/ GetAntologias
  \/ GetAutores
  \/ GetLikes
  \/ Export
  \/ Import
  \/ Reset

Spec == Init /\ [][Next]_vars

\* Requests arriving while a PUT is suspended at its await.
NextConc ==
  \/ Startup
  \/ CreateAutor
  \/ CreateAntologia
  \/ PutAntologiaUpdate
  \/ PutAntologiaRefetch
  \/ PutAutorUpdate
  \/ PutAutorRefetch
  \/ DeleteAntologia
  \/ Reset

SpecConc == Init /\ [][NextConc]_vars

----------------------------------------------------------------------------
(* Properties *)

ids(rows) == {r.id : r \in rows}

LikesOf(id) == {l \in likes : l.idantologia = id}

\* C1: after a POST /database/reset that ran alone and answered 200 the store
\* holds exactly one author, the seed author, exactly one entry, the seed
\* entry owned by that author, and no like; the listing then reports that one
\* entry with likesCount 0.
C1_ResetLeavesSeeds ==
  (res.op = "reset" /\ res.status = 200) =>
    /\ \E a \in autores, e \in antologias :
         /\ autores = {a} /\ a.nombre = SeedNombre
         /\ antologias = {e} /\ e.titulo = SeedTitulo /\ e.idautor = a.idautor
    /\ likes = {}
    /\ getAntologias(Store).status = 200
    /\ Cardinality(getAntologias(Store).rows) = 1
    /\ \A r \in getAntologias(Store).rows : r.likesCount = 0

\* A reset answered 200 on a store that held five rows or more.
C1_Witness ==
  /\ res.op = "reset" /\ res.status = 200 /\ res.n >= 5
  /\ Cardinality(autores) = 1 /\ Cardinality(antologias) = 1 /\ likes = {}

AllKeyed(body) ==
  /\ \A i \in 1..Len(body.autores.rows) : body.autores.rows[i].idautor # NULL
  /\ \A i \in 1..Len(body.antologias.rows) : body.antologias.rows[i].id # NULL
  /\ \A i \in 1..Len(body.likes.rows) : body.likes.rows[i].id # NULL

\* C2 as claimed: an import that repeats the body of the import just before
\* it adds no row, whatever the body (rows with or without a primary key).
C2_SecondImportAddsNothing ==
  (res.op = "import" /\ res.prev >= 0) => res.n = 0

\* C2, amended: an import that repeats the body of the import just before it
\* adds no row when every row of the body carries its primary key.
C2_SecondKeyedImportAddsNothing ==
  (res.op = "import" /\ res.prev >= 0 /\ AllKeyed(res.snap)) => res.n = 0

\* The same keyed body imported twice in a row: rows the first time, none the second.
C2_Witness ==
  /\ res.op = "import" /\ res.status = 200 /\ AllKeyed(res.snap)
  /\ res.prev > 0 /\ res.n = 0

\* C3: the likesCount GET /antologia reports for an entry is the number of
\* Like rows whose idantologia is the entry's id, and GET /like/:idantologia
\* returns that many rows for it.
C3_LikesCountMatches ==
  /\ (res.op = "getAntologias" /\ res.status = 200) =>
       \A r \in res.rows : r.likesCount = Cardinality(LikesOf(r.id))
  /\ (res.op = "getLikes" /\ res.id \in ids(antologias)) =>
       /\ res.n = Cardinality(LikesOf(res.id))
       /\ res.rows = LikesOf(res.id)
       /\ \A r \in getAntologias(Store).rows : r.id = res.id => r.likesCount = res.n

\* A listing of two entries, one with two likes and one with none.
C3_Witness ==
  /\ res.op = "getAntologias" /\ res.status = 200
  /\ \E r \in res.rows : r.likesCount = 2
  /\ \E r \in res.rows : r.likesCount = 0

\* What C4 asks of an import: each batch applied on its own, a failed batch
\* leaving the later ones to run.
importIndependent(st, body) ==
  LET a == importStep(st, "Autors", body.autores)
      e == importStep(a.st, "Antologias", body.antologias)
  IN importStep(e.st, "Likes", body.likes).st

\* C4: an import leaves the store as the three batches leave it when each is
\* attempted whether or not an earlier one failed.
C4_BatchesIndependent ==
  [][res'.op = "import" =>
       LET want == importIndependent(Store, res'.snap)
       IN (Within(want) =>
             /\ autores' = want.autores
             /\ antologias' = want.antologias
             /\ likes' = want.likes)]_vars

\* C5: initializeDatabase() on a store that already holds an author and an
\* entry leaves the three tables as they were.
C5_InitializeKeepsData ==
  [][(pc = "boot" /\ pc' = "serving" /\ autores # {} /\ antologias # {}) =>
       (autores' = autores /\ antologias' = antologias /\ likes' = likes)]_vars

\* C6: the export of the store, imported into a store with three empty
\* tables, answers 200 and yields the same rows in each table.
C6_ExportImportRoundTrip ==
  pc = "serving" =>
    LET back == importHandler(EmptyStore(fkPolicy), asBody(databaseDump(Store)))
    IN /\ back.res.status = 200
       /\ back.st.autores = autores
       /\ back.st.antologias = antologias
       /\ back.st.likes = likes

\* An export of two authors, two entries and a like.
C6_Witness ==
  /\ res.op = "export" /\ res.n >= 5
  /\ Len(res.snap.autores) = 2 /\ Len(res.snap.antologias) = 2 /\ Len(res.snap.likes) >= 1
  /\ importHandler(EmptyStore(fkPolicy), asBody(res.snap)).st.likes = likes

\* C7: DELETE /antologia/:id of an id no entry has answers 500 and changes no
\* table; it answers 200 only when exactly the entry with that id went away.
C7_DeleteMissingFails ==
  [][res'.op = "deleteAntologia" =>
       /\ res'.status \in {200, 500}
       /\ res'.id \notin ids(antologias) =>
            /\ res'.status = 500
            /\ autores' = autores /\ antologias' = antologias /\ likes' = likes
       /\ res'.status = 200 =>
            /\ res'.id \in ids(antologias)
            /\ antologias' = {e \in antologias : e.id # res'.id}
            /\ autores' = autores]_vars

\* A delete of an id no entry has, answered 500, with entries in the store.
C7_Witness ==
  /\ res.op = "deleteAntologia" /\ res.status = 500
  /\ res.id \notin ids(antologias) /\ antologias # {}

\* C8: GET /antologia answers 404 exactly when the store holds no entry, and
\* otherwise 200 with every entry, whatever the like counts and whether or
\* not the entry's author exists.
C8_EmptyListingIs404 ==
  res.op = "getAntologias" =>
    /\ res.status = 404 <=> antologias = {}
    /\ antologias # {} =>
         /\ res.status = 200
         /\ ids(res.rows) = ids(antologias)
         /\ Cardinality(res.rows) = Cardinality(antologias)

\* A 200 listing in which no entry has a like and one has no author row.
C8_Witness ==
  /\ res.op = "getAntologias" /\ res.status = 200
  /\ \A r \in res.rows : r.likesCount = 0
  /\ \E r \in res.rows : r.Autor = {}

TableOf(op) ==
  CASE op = "createAutor" -> "Autors"
    [] op = "createAntologia" -> "Antologias"
    [] op = "createLike" -> "Likes"

PutOk(r) ==
  /\ r.op = "putAntologia" =>
       \E e \in r.rows : e.id = r.id /\ e.idautor = r.sent.idautor
  /\ r.op = "putAutor" =>
       \E a \in r.rows : a.idautor = r.id /\ a.nombre = r.sent.nombre

\* C10 as claimed: under every interleaving a PUT that answers 200 returns
\* the row with the requested id, carrying the fields the request wrote.
C10_PutReturnsWrittenRow ==
  (res.op \in {"putAntologia", "putAutor"} /\ res.status = 200) => PutOk(res)

\* C10, amended: a PUT that answers 200 returns the row with the requested
\* id carrying the fields it wrote, provided that between its update and its
\* refetch no DELETE or PUT of the same id and no reset ran.
C10_UncrossedPutReturnsWrittenRow ==
  (res.op \in {"putAntologia", "putAutor"} /\ res.status = 200 /\ ~res.crossed)
    => PutOk(res)

\* A PUT answered 200 with its row while another PUT is still at its await.
C10_Witness ==
  /\ res.op = "putAntologia" /\ res.status = 200 /\ ~res.crossed
  /\ PutOk(res)
  /\ inflight # {}

====
